---- MODULE Spec2Model ----
(***************************************************************************)
(* Workflow construction in atomate/vasp/workflows/base/csld.py            *)
(* (CompressedSensingLatticeDynamicsWF) and in                             *)
(* matmethods/vasp/examples/vasp_workflows.py (get_wf_single_Vasp,         *)
(* get_wf_double_Vasp), followed by the execution of the built graph by a  *)
(* launcher that runs a firework only once all its parents are COMPLETED.  *)
(*                                                                         *)
(* Displacement magnitudes are integers in units of 1e-4; a dict is a      *)
(* function from its keys to its values; a class or task name is the       *)
(* sequence of the words it is made of.                                    *)
(***************************************************************************)
EXTENDS Integers, Sequences, FiniteSets, TLC

VARIABLES
    perturbed_supercells, \* self.perturbed_supercells
    disps,                \* self.disps
    c,                    \* the argument of the builder that was called
    pc,                   \* "start", or the builder that was called
    result,               \* "none", "ok" or the exception raised
    fws,                  \* the fireworks as they were created (before tagging)
    wf,                   \* the returned Workflow, NoWf when none was returned
    state                 \* launcher: the state of every firework of wf

vars == <<perturbed_supercells, disps, c, pc, result, fws, wf, state>>

(***************************************************************************)
(* Bounds of the model.                                                    *)
(***************************************************************************)
MaxBranches == 4

\* min_displacement / max_displacement values tried (0.0104 and 0.1)
Magnitudes == {104, 1000}

(***************************************************************************)
(* Python helpers.                                                         *)
(***************************************************************************)
\* dict.update: d.update(o)
DictUpdateDefaultsWin(d, o) ==
    [k \in (DOMAIN d) \cup (DOMAIN o) |-> IF k \in DOMAIN d THEN d[k] ELSE o[k]]

DictUpdate(d, o) ==
    [k \in (DOMAIN d) \cup (DOMAIN o) |-> IF k \in DOMAIN o THEN o[k] ELSE d[k]]

\* dict.get(k, default)
DictGet(d, k, default) == IF k \in DOMAIN d THEN d[k] ELSE default

\* np.repeat(a, r): every element r times in a row
Tile(a, r) ==
    [i \in 1..(Len(a) * r) |-> a[((i - 1) % Len(a)) + 1]]

Repeat(a, r) ==
    [i \in 1..(Len(a) * r) |-> a[((i - 1) \div r) + 1]]

\* s[-n:] of a Python list
TailSliceDropLast(s, n) ==
    IF n = 0 \/ n >= Len(s) THEN SubSeq(s, 1, Len(s) - 1)
    ELSE SubSeq(s, Len(s) - n + 1, Len(s) - 1)

TailSliceReversed(s, n) ==
    [i \in 1..Len(s) |-> s[Len(s) - i + 1]]

TailSlice(s, n) ==
    IF n = 0 \/ n >= Len(s) THEN s ELSE SubSeq(s, Len(s) - n + 1, Len(s))

\* "{:.3f}".format(x): x in 1e-4 units, the result in 1e-3 units.  (A value
\* that ends in 5 is rounded by its binary expansion; Magnitudes has none.)
Format3(x) == (x + 5) \div 10

\* `sub in name` on names as word sequences
Contains(name, sub) ==
    \E k \in 0..(Len(name) - Len(sub)) :
        \A j \in 1..Len(sub) : name[k + j] = sub[j]

\* np.linspace(lo, hi, num)
Linspace(lo, hi, num) ==
    [i \in 1..num |->
        IF num = 1 THEN lo ELSE lo + ((i - 1) * (hi - lo)) \div (num - 1)]

(***************************************************************************)
(* Module-level configuration and the instance's identity.                *)
(***************************************************************************)
VASP_CMD == "vasp_std"
DB_FILE == "db.json"
uuid == "uuid4"
wf_meta == [wf_uuid |-> uuid, wf_name |-> "CompressedSensingLatticeDynamicsWF"]
parent_structure == "Si2"
reduced_formula == "Si"
supercell == "Si2 supercell"
trans_mat == "trans_mat"

NoWf == [name |-> "", fws |-> <<>>]
NoConfig == [none |-> TRUE, d |-> <<>>]

(***************************************************************************)
(* __init__: the perturbed supercells and their displacement values.       *)
(***************************************************************************)
\* PerturbSitesTransformation(...).apply_transformation(supercell): one
\* structure per displacement value and sample, each remembering the
\* displacement value it was produced with.
RECURSIVE PerturbSitesTransformation(_, _, _)
PerturbSitesTransformation(tdisps, per, done) ==
    IF done = Len(tdisps) THEN <<>>
    ELSE [k \in 1..per |-> [disp_used |-> tdisps[done + 1], cell |-> k]]
         \o PerturbSitesTransformation(tdisps, per, done + 1)

Init ==
    /\ \E num \in 0..MaxBranches, per \in 0..MaxBranches,
          lo \in Magnitudes, hi \in Magnitudes :
          /\ num * per <= MaxBranches
          /\ perturbed_supercells =
                 PerturbSitesTransformation(Linspace(lo, hi, num), per, 0)
          /\ disps = Repeat(Linspace(lo, hi, num), per)
    /\ c = NoConfig
    /\ pc = "start"
    /\ result = "none"
    /\ fws = <<>>
    /\ wf = NoWf
    /\ state = <<>>

(***************************************************************************)
(* Fireworks, firetasks and workflows.                                     *)
(***************************************************************************)
WriteVaspFromIOSet == <<"Write", "Vasp", "From", "IOSet">>
RunVaspCustodian == <<"Run", "Vasp", "Custodian">>
VaspToDb == <<"Vasp", "To", "Db">>
CSLDForceConstantsToDB == <<"CSLD", "Force", "Constants", "To", "DB">>
RunVaspDirect == <<"Run", "Vasp", "Direct">>
PassVaspLocs == <<"Pass", "Vasp", "Locs">>
VaspToDBTask == <<"Vasp", "To", "DB", "Task">>
CopyVaspInputs == <<"Copy", "Vasp", "Inputs">>

Name(text, idx, disp_val) == [text |-> text, idx |-> idx, disp_val |-> disp_val]
PlainName(text) == Name(text, -1, -1)

Task(cls, params, additional_fields) ==
    [cls |-> cls, params |-> params, additional_fields |-> additional_fields]

Firework(tasks, name, parents) ==
    [tasks |-> tasks, name |-> name, parents |-> parents]

Workflow(fireworks, name) == [name |-> name, fws |-> fireworks]

MPStaticSet(structure, user_incar_settings) ==
    [structure |-> structure, user_incar_settings |-> user_incar_settings]

\* StaticFW: write the input, run the simulation, parse and store.
StaticFW(structure, vasp_input_set, vasp_cmd, db_file, name, parents) ==
    Firework(
        << Task(WriteVaspFromIOSet,
                [structure |-> structure, vasp_input_set |-> vasp_input_set],
                <<>>),
           Task(RunVaspCustodian, [vasp_cmd |-> vasp_cmd], <<>>),
           Task(VaspToDb, [db_file |-> db_file], [task_label |-> name]) >>,
        name, parents)

\* add_additional_fields_to_taskdocs(wf, update_dict, task_name_constraint)
add_additional_fields_to_taskdocs(w, update_dict, task_name_constraint) ==
    [w EXCEPT !.fws =
        [i \in 1..Len(w.fws) |->
            [w.fws[i] EXCEPT !.tasks =
                [j \in 1..Len(w.fws[i].tasks) |->
                    IF Contains(w.fws[i].tasks[j].cls, task_name_constraint)
                    THEN [w.fws[i].tasks[j] EXCEPT !.additional_fields =
                              DictUpdate(@, update_dict)]
                    ELSE w.fws[i].tasks[j]]]]]

(***************************************************************************)
(* CompressedSensingLatticeDynamicsWF.get_wf(c)                            *)
(***************************************************************************)
\* c = c or {"VASP_CMD": VASP_CMD, "DB_FILE": DB_FILE}
EffectiveConfig(cin) ==
    IF cin.none \/ DOMAIN cin.d = {}
    THEN [VASP_CMD |-> VASP_CMD, DB_FILE |-> DB_FILE]
    ELSE cin.d

DefaultIncarSettings ==
    [ADDGRID |-> TRUE, LCHARG |-> FALSE, ENCUT |-> 700, EDIFF |-> "1e-7",
     PREC |-> "Accurate", LAECHG |-> FALSE, LREAL |-> FALSE, LASPH |-> TRUE]

UserIncarSettings(ceff) ==
    DictUpdate(DefaultIncarSettings, DictGet(ceff, "user_incar_settings", <<>>))

\* the task_name_constraint of the tagging step
TaskNameConstraintCSLD == CSLDForceConstantsToDB

TaskNameConstraint == VaspToDb

\* the parents the StaticFW of branch idx is created with (none are passed)
BranchParentsChained(idx) == IF idx = 0 THEN <<>> ELSE <<idx>>

BranchParents(idx) == <<>>

\* the index into self.disps used for the name of branch idx (0-based)
BranchNameDispFirst(idx) == 0

BranchNameDisp(idx) == idx

\* one iteration of the loop over enumerate(self.perturbed_supercells)
BranchFW(idx, ceff) ==
    StaticFW(perturbed_supercells[idx + 1],
             MPStaticSet(perturbed_supercells[idx + 1], UserIncarSettings(ceff)),
             ceff["VASP_CMD"], ceff["DB_FILE"],
             Name("perturbed supercell static", idx,
                  Format3(disps[BranchNameDisp(idx) + 1])),
             BranchParents(idx))

CsldFW(ceff, created) ==
    Firework(
        << Task(CSLDForceConstantsToDB,
                [db_file |-> ceff["DB_FILE"], wf_uuid |-> uuid,
                 name |-> "CSLDForceConstantsToDB",
                 parent_structure |-> parent_structure,
                 trans_mat |-> trans_mat,
                 supercell_structure |-> supercell,
                 disps |-> disps],
                <<>>) >>,
        PlainName("Compressed Sensing Lattice Dynamics"),
        TailSlice([i \in 1..Len(created) |-> i], Len(perturbed_supercells)))

\* the outcome of get_wf(cin): the exception raised (or "ok"), the fireworks
\* created until then, and the Workflow returned
GetWfOutcome(cin) ==
    LET ceff == EffectiveConfig(cin)
        n == Len(perturbed_supercells)
        hasCmd == "VASP_CMD" \in DOMAIN ceff
        hasDb == "DB_FILE" \in DOMAIN ceff
        branches(m) == [i \in 1..m |-> BranchFW(i - 1, ceff)]
        raised(exc, made) == [result |-> exc, fws |-> made, wf |-> NoWf]
    IN  IF n >= 1 /\ Len(disps) = 0 THEN raised("IndexError", <<>>)
        ELSE IF n >= 1 /\ ~(hasCmd /\ hasDb) THEN raised("KeyError", <<>>)
        ELSE IF Len(disps) < n
             THEN raised("IndexError", branches(Len(disps)))
        ELSE IF ~hasDb THEN raised("KeyError", <<>>)
        ELSE LET all == Append(branches(n), CsldFW(ceff, branches(n)))
                 wf_name == <<reduced_formula,
                              " - compressed sensing lattice dynamics">>
             IN  [result |-> "ok", fws |-> all,
                  wf |-> add_additional_fields_to_taskdocs(
                             Workflow(all, wf_name),
                             [wf_meta |-> wf_meta],
                             TaskNameConstraint)]

\* the run configurations tried
UserIncarOverrides ==
    { <<>>, [ENCUT |-> 520], [ISMEAR |-> 0], [ENCUT |-> 520, LREAL |-> TRUE] }

ConfigKeys == {"VASP_CMD", "DB_FILE", "user_incar_settings", "FOO"}

ConfigDict(keys, uis) ==
    [k \in keys |->
        CASE k = "VASP_CMD" -> ">>vasp_cmd<<"
          [] k = "DB_FILE" -> ">>db_file<<"
          [] k = "user_incar_settings" -> uis
          [] OTHER -> "bar"]

RunConfigs ==
    {NoConfig} \cup
    { [none |-> FALSE, d |-> ConfigDict(keys, uis)] :
          keys \in SUBSET ConfigKeys, uis \in UserIncarOverrides }

WaitingAll(w) == [i \in 1..Len(w.fws) |-> "WAITING"]

GetWf ==
    /\ pc = "start"
    /\ \E cin \in RunConfigs :
          LET out == GetWfOutcome(cin)
          IN  /\ c' = cin
              /\ result' = out.result
              /\ fws' = out.fws
              /\ wf' = out.wf
              /\ state' = WaitingAll(out.wf)
    /\ pc' = "get_wf"
    /\ UNCHANGED <<perturbed_supercells, disps>>

(***************************************************************************)
(* matmethods/vasp/examples/vasp_workflows.py                              *)
(***************************************************************************)
VaspCmds == {"vasp", ">>vasp_cmd<<"}
DbFiles == {"None", "db.json"}

ExampleArgs(vasp_cmd, db_file) ==
    [none |-> FALSE,
     d |-> [vasp_input_set |-> "MPVaspInputSet", vasp_cmd |-> vasp_cmd,
            db_file |-> db_file]]

get_wf_single_Vasp(structure, vasp_input_set, vasp_cmd, db_file) ==
    LET write_task == Task(WriteVaspFromIOSet,
                           [structure |-> structure,
                            vasp_input_set |-> vasp_input_set], <<>>)
        run_task == Task(RunVaspDirect, [vasp_cmd |-> vasp_cmd], <<>>)
        parse_task == Task(VaspToDBTask, [db_file |-> db_file], <<>>)
        my_fw == Firework(<<write_task, run_task, parse_task>>,
                          PlainName("structure optimization"), <<>>)
    IN  Workflow(<<my_fw>>, my_fw.name)

\* the parents of fw2 (parents=fw1)
DoubleStaticParentsNone == <<>>

DoubleStaticParents == <<1>>

get_wf_double_Vasp(structure, vasp_input_set, vasp_cmd, db_file) ==
    LET t11 == Task(WriteVaspFromIOSet,
                    [structure |-> structure,
                     vasp_input_set |-> vasp_input_set], <<>>)
        t12 == Task(RunVaspDirect, [vasp_cmd |-> vasp_cmd], <<>>)
        t13 == Task(PassVaspLocs, [name |-> "structure optimization"], <<>>)
        t14 == Task(VaspToDBTask, [db_file |-> db_file], <<>>)
        fw1 == Firework(<<t11, t12, t13, t14>>,
                        PlainName("structure optimization"), <<>>)
        t21 == Task(CopyVaspInputs, [vasp_loc |-> TRUE], <<>>)
        fw2 == Firework(<<t21>>, PlainName("static"), DoubleStaticParents)
    IN  Workflow(<<fw1, fw2>>, PlainName("unnamed WF"))

GetWfSingle ==
    /\ pc = "start"
    /\ \E vasp_cmd \in VaspCmds, db_file \in DbFiles :
          LET w == get_wf_single_Vasp(parent_structure, "MPVaspInputSet",
                                      vasp_cmd, db_file)
          IN  /\ c' = ExampleArgs(vasp_cmd, db_file)
              /\ fws' = w.fws
              /\ wf' = w
              /\ state' = WaitingAll(w)
    /\ result' = "ok"
    /\ pc' = "get_wf_single_Vasp"
    /\ UNCHANGED <<perturbed_supercells, disps>>

GetWfDouble ==
    /\ pc = "start"
    /\ \E vasp_cmd \in VaspCmds, db_file \in DbFiles :
          LET w == get_wf_double_Vasp(parent_structure, "MPVaspInputSet",
                                      vasp_cmd, db_file)
          IN  /\ c' = ExampleArgs(vasp_cmd, db_file)
              /\ fws' = w.fws
              /\ wf' = w
              /\ state' = WaitingAll(w)
    /\ result' = "ok"
    /\ pc' = "get_wf_double_Vasp"
    /\ UNCHANGED <<perturbed_supercells, disps>>

(***************************************************************************)
(* The launcher: a firework is runnable once all its parents have          *)
(* completed; a running firework completes or fails; nothing is rerun.     *)
(***************************************************************************)
Runnable(i) ==
    /\ state[i] = "WAITING"
    /\ \A k \in 1..Len(wf.fws[i].parents) :
           state[wf.fws[i].parents[k]] = "COMPLETED"

Run(i) ==
    /\ Runnable(i)
    /\ state' = [state EXCEPT ![i] = "RUNNING"]
    /\ UNCHANGED <<perturbed_supercells, disps, c, pc, result, fws, wf>>

Complete(i) ==
    /\ state[i] = "RUNNING"
    /\ state' = [state EXCEPT ![i] = "COMPLETED"]
    /\ UNCHANGED <<perturbed_supercells, disps, c, pc, result, fws, wf>>

Fizzle(i) ==
    /\ state[i] = "RUNNING"
    /\ state' = [state EXCEPT ![i] = "FIZZLED"]
    /\ UNCHANGED <<perturbed_supercells, disps, c, pc, result, fws, wf>>

RunSome == \E i \in DOMAIN state : Run(i)
CompleteSome == \E i \in DOMAIN state : Complete(i)
FizzleSome == \E i \in DOMAIN state : Fizzle(i)

Next ==
    \/ GetWf
    \/ GetWfSingle
    \/ GetWfDouble
    \/ RunSome
    \/ CompleteSome
    \/ FizzleSome

Spec == Init /\ [][Next]_vars

(***************************************************************************)
(* Vocabulary of the properties.                                           *)
(***************************************************************************)
Built == pc = "get_wf" /\ result = "ok"
NumBranches == Len(perturbed_supercells)
Branches == 1..NumBranches
Aggregation == NumBranches + 1
TaskClasses(fw) == [j \in 1..Len(fw.tasks) |-> fw.tasks[j].cls]
Started(i) == state[i] \in {"RUNNING", "COMPLETED", "FIZZLED"}

RECURSIVE Ancestors(_, _)
Ancestors(i, fuel) ==
    LET ps == {wf.fws[i].parents[k] : k \in 1..Len(wf.fws[i].parents)}
    IN  IF fuel = 0 THEN ps
        ELSE ps \cup UNION {Ancestors(p, fuel - 1) : p \in ps}

SuppliedIncar ==
    IF ~c.none /\ "user_incar_settings" \in DOMAIN c.d
    THEN c.d["user_incar_settings"] ELSE <<>>

\* C1: a workflow built from N >= 1 perturbed supercells has exactly N
\* branch fireworks, one per supercell in the original order, plus exactly
\* one aggregation firework, whose parents are the N branch fireworks in
\* that order.
C1_GraphShape ==
    (Built /\ NumBranches >= 1) =>
        /\ Len(wf.fws) = NumBranches + 1
        /\ \A i \in Branches :
              /\ TaskClasses(wf.fws[i])[Len(wf.fws[i].tasks)] = VaspToDb
              /\ wf.fws[i].tasks[1].params.structure = perturbed_supercells[i]
              /\ wf.fws[i].name.idx = i - 1
        /\ Cardinality({i \in 1..Len(wf.fws) :
               TaskClasses(wf.fws[i]) = <<CSLDForceConstantsToDB>>}) = 1
        /\ TaskClasses(wf.fws[Aggregation]) = <<CSLDForceConstantsToDB>>
        /\ wf.fws[Aggregation].parents = [i \in Branches |-> i]

C1_Witness == Built /\ NumBranches >= 3

\* C2: the aggregation firework is never started unless every branch
\* firework has completed; once a branch has failed it stays failed and the
\* aggregation firework is not started in any later state.
C2_AggregationAfterBranches ==
    /\ [](Built => (Started(Aggregation) =>
                       \A i \in Branches : state[i] = "COMPLETED"))
    /\ [][(Built /\ \E i \in Branches : state[i] = "FIZZLED") =>
              /\ \E i \in Branches : state'[i] = "FIZZLED"
              /\ ~Started(Aggregation)']_vars

C2_Witness ==
    /\ Built /\ NumBranches >= 2
    /\ state[1] = "FIZZLED"
    /\ \A i \in Branches \ {1} : state[i] = "COMPLETED"
    /\ state[Aggregation] = "WAITING"

\* C3: get_wf on an empty list of perturbed supercells fails with
\* ValidationError and returns no Workflow.
C3_EmptyFailsValidation ==
    (pc = "get_wf" /\ NumBranches = 0) =>
        (result = "ValidationError" /\ wf = NoWf)

C5_OmittedKeysDefault ==
    (pc = "get_wf") =>
        /\ result = "ok"
        /\ \A i \in Branches :
              /\ wf.fws[i].tasks[2].params.vasp_cmd =
                     DictGet(c.d, "VASP_CMD", VASP_CMD)
              /\ wf.fws[i].tasks[3].params.db_file =
                     DictGet(c.d, "DB_FILE", DB_FILE)

\* C6: the INCAR settings of every branch are the eight defaults with each
\* supplied key replacing its default and every other key left as it is.
C6_IncarMerge ==
    Built =>
        \A i \in Branches :
            LET eff == wf.fws[i].tasks[1].params.vasp_input_set.user_incar_settings
                def == [ADDGRID |-> TRUE, LCHARG |-> FALSE, ENCUT |-> 700,
                        EDIFF |-> "1e-7", PREC |-> "Accurate",
                        LAECHG |-> FALSE, LREAL |-> FALSE, LASPH |-> TRUE]
            IN  /\ DOMAIN eff = (DOMAIN def) \cup (DOMAIN SuppliedIncar)
                /\ \A k \in DOMAIN SuppliedIncar : eff[k] = SuppliedIncar[k]
                /\ \A k \in (DOMAIN def) \ (DOMAIN SuppliedIncar) : eff[k] = def[k]

C6_Witness ==
    /\ Built /\ NumBranches >= 2
    /\ DOMAIN SuppliedIncar = {"ENCUT", "LREAL"}

\* C7: no branch firework has another branch firework among its ancestors,
\* and a branch that has not started may start whatever the others do.
C7_BranchesIndependent ==
    Built =>
        \A i \in Branches :
            /\ Ancestors(i, NumBranches) \cap (Branches \ {i}) = {}
            /\ state[i] = "WAITING" => Runnable(i)

C7_Witness ==
    /\ Built /\ NumBranches >= 3
    /\ \A i \in Branches : state[i] = "RUNNING"

\* C8: get_wf on a run config with an unrecognized key fails with
\* ConfigurationError, having created no firework and returning no Workflow.
C8_UnrecognizedKeyRejected ==
    (pc = "get_wf" /\ ~c.none /\ "FOO" \in DOMAIN c.d) =>
        (result = "ConfigurationError" /\ fws = <<>> /\ wf = NoWf)

\* C9: the tagging step adds wf_meta to the additional fields of every task
\* whose name contains "VaspToDb", keeps all its other fields, and leaves
\* every other task, the aggregation task among them, as it was created.
C9_TaggingFrame ==
    Built =>
        /\ Len(wf.fws) = Len(fws)
        /\ \A i \in 1..Len(fws) :
              /\ wf.fws[i].name = fws[i].name
              /\ wf.fws[i].parents = fws[i].parents
              /\ Len(wf.fws[i].tasks) = Len(fws[i].tasks)
              /\ \A j \in 1..Len(fws[i].tasks) :
                    LET before == fws[i].tasks[j]
                        after == wf.fws[i].tasks[j]
                    IN  IF Contains(before.cls, <<"Vasp", "To", "Db">>)
                        THEN /\ after.cls = before.cls
                             /\ after.params = before.params
                             /\ "wf_meta" \in DOMAIN after.additional_fields
                             /\ after.additional_fields["wf_meta"] = wf_meta
                             /\ \A k \in DOMAIN before.additional_fields :
                                   /\ k \in DOMAIN after.additional_fields
                                   /\ after.additional_fields[k] =
                                          before.additional_fields[k]
                             /\ DOMAIN after.additional_fields =
                                    DOMAIN before.additional_fields \cup {"wf_meta"}
                        ELSE after = before

C9_Witness ==
    /\ Built /\ NumBranches >= 2
    /\ "task_label" \in DOMAIN wf.fws[1].tasks[3].additional_fields
    /\ "wf_meta" \in DOMAIN wf.fws[1].tasks[3].additional_fields
    /\ wf.fws[Aggregation].tasks[1].additional_fields = <<>>

====
